---- MODULE Spec2Model ----
(***************************************************************************)
(* Model of src/v2/blobs.rs: Client::has_blob, Client::get_blob and        *)
(* Client::get_blob_with_progress.                                         *)
(*                                                                         *)
(* Every call is a process with its own locals.  The transport (the HTTP   *)
(* server and the connection) is scripted per call in req[c].net: whether  *)
(* the request can be sent, the status, the declared content length and    *)
(* the items the body stream yields.  The consumer of the progress channel *)
(* is the environment: it may drop its receiver at any time.               *)
(***************************************************************************)
EXTENDS Integers, Sequences, FiniteSets, TLC

\* ------------------------------------------------------------------ bounds
MaxChunks == 3        \* longest body stream, in items
MaxLength == 3        \* largest declared content length
MaxConcChunks == 2    \* longest body stream of a call that runs beside another

\* ------------------------------------------------------------- data model
\* Option<T>: None is the empty set, Some(x) the singleton
None == {}
Some(x) == {x}
Unwrap(o) == CHOOSE x \in o : TRUE

\* the buffers a body stream item can carry (sizes 1 and 2)
ChunkBytes == {<<0>>, <<1, 0>>}

OkItem(b) == [ok |-> TRUE, bytes |-> b]
ErrItem == [ok |-> FALSE, bytes |-> <<>>]

RECURSIVE SeqsUpTo(_, _)
SeqsUpTo(S, n) ==
    IF n = 0 THEN {<<>>}
    ELSE LET shorter == SeqsUpTo(S, n - 1)
         IN  shorter \cup {Append(s, x) : s \in {t \in shorter : Len(t) = n - 1}, x \in S}

\* body streams: what each poll of the body would yield, a buffer or a
\* transport failure
Streams == SeqsUpTo({OkItem(b) : b \in ChunkBytes} \cup {ErrItem}, MaxChunks)

Statuses == {200, 204, 301, 404, 500}

\* StatusCode::is_success, StatusCode::is_client_error (http crate)
is_success(s) == s >= 200 /\ s <= 299
is_client_error(s) == s >= 400 /\ s <= 499

\* ------------------------------------------------------------ ContentDigest
\* A digest string is a sequence of characters; "s" is the one supported
\* algorithm name, its hash has HexLen hex digits.
HexLen == 2
HexDigits == {"0", "1"}
Algorithms == {<<"s">>}

RECURSIVE SumWeighted(_, _)
SumWeighted(bytes, i) ==
    IF i > Len(bytes) THEN 0
    ELSE i * (bytes[i] + 1) + SumWeighted(bytes, i + 1)

\* the hash of a buffer, hex-encoded
Hash(bytes) ==
    LET h == SumWeighted(bytes, 1) % 4
    IN  <<IF h \div 2 = 0 THEN "0" ELSE "1", IF h % 2 = 0 THEN "0" ELSE "1">>

FirstSep(s) ==
    IF \E i \in 1..Len(s) : s[i] = ":"
    THEN CHOOSE i \in 1..Len(s) : s[i] = ":" /\ \A j \in 1..(i - 1) : s[j] # ":"
    ELSE 0

\* ContentDigest::try_new: None stands for the digest-format error
try_new(s) ==
    LET k == FirstSep(s)
        alg == SubSeq(s, 1, k - 1)
        hex == SubSeq(s, k + 1, Len(s))
    IN  IF k = 0 THEN None
        ELSE IF alg \notin Algorithms THEN None
        ELSE IF Len(hex) # HexLen THEN None
        ELSE IF \E i \in 1..Len(hex) : hex[i] \notin HexDigits THEN None
        ELSE Some([algorithm |-> alg, hex |-> hex])

\* ContentDigest::try_verify: TRUE stands for Ok(()), FALSE for the error
try_verify(d, bytes) == Hash(bytes) = d.hex

DigestStrings ==
    {<<"s", ":", a, b>> : a \in HexDigits, b \in HexDigits}
        \cup { <<"s", "0", "1">>,            \* no separator
               <<"s", ":", "0">>,            \* wrong hex length
               <<"s", ":", "0", "g">>,       \* not a hex digit
               <<"m", ":", "0", "1">> }      \* unknown algorithm

\* ---------------------------------------------------------------- results
NoResult == [kind |-> "Pending", status |-> 0, len |-> 0, body |-> <<>>, flag |-> FALSE]
OkBool(b) == [kind |-> "OkBool", status |-> 0, len |-> 0, body |-> <<>>, flag |-> b]
OkBytes(b) == [kind |-> "Ok", status |-> 0, len |-> 0, body |-> b, flag |-> FALSE]
Err(k) == [kind |-> k, status |-> 0, len |-> 0, body |-> <<>>, flag |-> FALSE]
ErrStatus(s) == [kind |-> "UnexpectedHttpStatus", status |-> s, len |-> 0, body |-> <<>>, flag |-> FALSE]
ErrClient(s, l, b) == [kind |-> "Client", status |-> s, len |-> l, body |-> b, flag |-> FALSE]

\* ------------------------------------------------------------------ inputs
\* reqwest::Url::parse of "{base_url}/v2/{name}/blobs/{digest}": the endpoint
\* is absolute only when base_url carries a scheme
BaseUrls == {"http://registry", "registry"}
UrlParse(base_url) == base_url = "http://registry"

\* what the transport does for one request
FailedSend == [sendOk |-> FALSE, status |-> 0, content_length |-> None, stream |-> <<>>]
HeadScripts ==
    {FailedSend} \cup
    {[sendOk |-> TRUE, status |-> s, content_length |-> None, stream |-> <<>>] : s \in Statuses}
GetScripts ==
    {FailedSend} \cup
    [sendOk : {TRUE}, status : Statuses,
     content_length : {None} \cup {Some(l) : l \in 0..MaxLength}, stream : Streams]

Requests ==
    [op : {"has_blob"}, digest : DigestStrings, base_url : BaseUrls,
     sender : {FALSE}, net : HeadScripts]
    \cup
    [op : {"get_blob"}, digest : DigestStrings, base_url : BaseUrls,
     sender : {FALSE}, net : GetScripts]
    \cup
    [op : {"get_blob_with_progress"}, digest : DigestStrings, base_url : BaseUrls,
     sender : BOOLEAN, net : GetScripts]

\* ------------------------------------------------------------------- state
VARIABLES
    req,         \* the call's arguments and its transport script
    pc,          \* the call's position
    digest,      \* let digest (Option)
    status,      \* let status
    total_size,  \* let total_size
    downloaded,  \* let mut downloaded
    body_vec,    \* let body_vec
    blob,        \* let blob
    result,      \* the value the call returned
    requests,    \* the requests the call issued, in order
    bodyReads,   \* body-read events: res.bytes() or one poll of the stream
    pos,         \* items of the stream consumed so far
    sent,        \* values the channel accepted, in order
    rxAlive,     \* the consumer still holds the Receiver
    txDropped,   \* times the call's Sender was dropped
    verified     \* the try_verify calls, in order

vars == <<req, pc, digest, status, total_size, downloaded, body_vec, blob, result,
          requests, bodyReads, pos, sent, rxAlive, txDropped, verified>>

locals == <<digest, status, total_size, downloaded, body_vec, blob>>
wire == <<requests, bodyReads, pos>>
channel == <<sent, rxAlive>>

\* the calls that can be in progress, and those that are
CallIds == {1, 2}
Calls == DOMAIN pc

\* one call at a time
SingleCall == {1}

\* the calls F describes (one request per call) are about to start
InitFrom(F) ==
    /\ req \in F
    /\ pc = [c \in DOMAIN req |-> "start"]
    /\ digest = [c \in DOMAIN req |-> None]
    /\ status = [c \in DOMAIN req |-> 0]
    /\ total_size = [c \in DOMAIN req |-> 0]
    /\ downloaded = [c \in DOMAIN req |-> 0]
    /\ body_vec = [c \in DOMAIN req |-> <<>>]
    /\ blob = [c \in DOMAIN req |-> <<>>]
    /\ result = [c \in DOMAIN req |-> NoResult]
    /\ requests = [c \in DOMAIN req |-> <<>>]
    /\ bodyReads = [c \in DOMAIN req |-> 0]
    /\ pos = [c \in DOMAIN req |-> 0]
    /\ sent = [c \in DOMAIN req |-> <<>>]
    /\ rxAlive = [c \in DOMAIN req |-> req[c].sender]
    /\ txDropped = [c \in DOMAIN req |-> 0]
    /\ verified = [c \in DOMAIN req |-> <<>>]

InitCalls(C, R) == InitFrom([C -> R])

Init == InitCalls(SingleCall, Requests)

\* variant: the Sender is released on the success path only
Return_release_on_ok(c, r) ==
    /\ result' = [result EXCEPT ![c] = r]
    /\ pc' = [pc EXCEPT ![c] = "done"]
    /\ txDropped' = [txDropped EXCEPT ![c] =
            @ + (IF req[c].sender /\ r.kind = "Ok" THEN 1 ELSE 0)]

\* The function returns r: its parameters go out of scope, the Sender (when
\* one was passed) with them.
Return(c, r) ==
    /\ result' = [result EXCEPT ![c] = r]
    /\ pc' = [pc EXCEPT ![c] = "done"]
    /\ txDropped' = [txDropped EXCEPT ![c] = @ + (IF req[c].sender THEN 1 ELSE 0)]

Goto(c, l) ==
    /\ pc' = [pc EXCEPT ![c] = l]
    /\ UNCHANGED <<result, txDropped>>

\* ---------------------------------------------------------------- has_blob
has_blob_url(c) ==
    /\ c \in Calls /\ req[c].op = "has_blob" /\ pc[c] = "start"
    /\ IF UrlParse(req[c].base_url) THEN Goto(c, "send") ELSE Return(c, Err("UrlParse"))
    /\ UNCHANGED <<req, locals, wire, channel, verified>>

has_blob_send(c) ==
    /\ c \in Calls /\ req[c].op = "has_blob" /\ pc[c] = "send"
    /\ requests' = [requests EXCEPT ![c] = Append(@, "HEAD")]
    /\ IF req[c].net.sendOk
       THEN /\ status' = [status EXCEPT ![c] = req[c].net.status]
            /\ Goto(c, "status")
       ELSE /\ Return(c, Err("Transport"))
            /\ UNCHANGED status
    /\ UNCHANGED <<req, digest, total_size, downloaded, body_vec, blob, bodyReads, pos,
                   channel, verified>>

\* variant: every success status counts as present
has_blob_match_any_success(s) == IF is_success(s) THEN OkBool(TRUE) ELSE OkBool(FALSE)

\* match res.status() { StatusCode::OK => Ok(true), _ => Ok(false) }
has_blob_match(s) == IF s = 200 THEN OkBool(TRUE) ELSE OkBool(FALSE)

has_blob_status(c) ==
    /\ c \in Calls /\ req[c].op = "has_blob" /\ pc[c] = "status"
    /\ Return(c, has_blob_match(status[c]))
    /\ UNCHANGED <<req, locals, wire, channel, verified>>

has_blob(c) == has_blob_url(c) \/ has_blob_send(c) \/ has_blob_status(c)

\* ---------------------------------------------------------------- get_blob
RECURSIVE Concat(_)
Concat(items) ==
    IF items = <<>> THEN <<>> ELSE Head(items).bytes \o Concat(Tail(items))

AllOk(items) == \A i \in 1..Len(items) : items[i].ok

\* variant: the parse error is not propagated with `?`
get_blob_parse_unchecked(c) ==
    /\ c \in Calls /\ req[c].op = "get_blob" /\ pc[c] = "start"
    /\ digest' = [digest EXCEPT ![c] = try_new(req[c].digest)]
    /\ Goto(c, "url")
    /\ UNCHANGED <<req, status, total_size, downloaded, body_vec, blob, wire, channel, verified>>

get_blob_parse(c) ==
    /\ c \in Calls /\ req[c].op = "get_blob" /\ pc[c] = "start"
    /\ digest' = [digest EXCEPT ![c] = try_new(req[c].digest)]
    /\ IF digest'[c] = None THEN Return(c, Err("DigestFormat")) ELSE Goto(c, "url")
    /\ UNCHANGED <<req, status, total_size, downloaded, body_vec, blob, wire, channel, verified>>

get_blob_url(c) ==
    /\ c \in Calls /\ req[c].op = "get_blob" /\ pc[c] = "url"
    /\ IF UrlParse(req[c].base_url) THEN Goto(c, "send") ELSE Return(c, Err("UrlParse"))
    /\ UNCHANGED <<req, locals, wire, channel, verified>>

\* variant: a request that could not be sent is sent again
get_blob_send_retry(c) ==
    /\ c \in Calls /\ req[c].op = "get_blob" /\ pc[c] = "send"
    /\ requests' = [requests EXCEPT ![c] = Append(@, "GET")]
    /\ status' = [status EXCEPT ![c] = req[c].net.status]
    /\ Goto(c, IF req[c].net.sendOk THEN "gate" ELSE "send")
    /\ UNCHANGED <<req, digest, total_size, downloaded, body_vec, blob, bodyReads, pos,
                   channel, verified>>

get_blob_send(c) ==
    /\ c \in Calls /\ req[c].op = "get_blob" /\ pc[c] = "send"
    /\ requests' = [requests EXCEPT ![c] = Append(@, "GET")]
    /\ IF req[c].net.sendOk
       THEN /\ status' = [status EXCEPT ![c] = req[c].net.status]
            /\ Goto(c, "gate")
       ELSE /\ Return(c, Err("Transport"))
            /\ UNCHANGED status
    /\ UNCHANGED <<req, digest, total_size, downloaded, body_vec, blob, bodyReads, pos,
                   channel, verified>>

\* if !status.is_success() { return ... }
get_blob_gate_closed(s) == ~is_success(s)

get_blob_gate(c) ==
    /\ c \in Calls /\ req[c].op = "get_blob" /\ pc[c] = "gate"
    /\ IF get_blob_gate_closed(status[c])
       THEN Return(c, ErrStatus(status[c]))
       ELSE Goto(c, "body")
    /\ UNCHANGED <<req, locals, wire, channel, verified>>

\* variant: a body whose read failed is taken as far as it came
get_blob_bytes_lenient(c) ==
    /\ c \in Calls /\ req[c].op = "get_blob" /\ pc[c] = "body"
    /\ bodyReads' = [bodyReads EXCEPT ![c] = @ + 1]
    /\ pos' = [pos EXCEPT ![c] = Len(req[c].net.stream)]
    /\ body_vec' = [body_vec EXCEPT ![c] = Concat(req[c].net.stream)]
    /\ Goto(c, "classify")
    /\ UNCHANGED <<req, digest, status, total_size, downloaded, blob, requests, channel,
                   verified>>

\* variant: the body is read into one buffer that all calls share
get_blob_bytes_shared(c) ==
    /\ c \in Calls /\ req[c].op = "get_blob" /\ pc[c] = "body"
    /\ bodyReads' = [bodyReads EXCEPT ![c] = @ + 1]
    /\ pos' = [pos EXCEPT ![c] = Len(req[c].net.stream)]
    /\ IF AllOk(req[c].net.stream)
       THEN /\ body_vec' = [d \in DOMAIN body_vec |-> body_vec[c] \o Concat(req[c].net.stream)]
            /\ Goto(c, "classify")
       ELSE /\ Return(c, Err("Transport"))
            /\ UNCHANGED body_vec
    /\ UNCHANGED <<req, digest, status, total_size, downloaded, blob, requests, channel,
                   verified>>

\* res.bytes().await?.to_vec(): the whole stream, or the transport's error
get_blob_bytes(c) ==
    /\ c \in Calls /\ req[c].op = "get_blob" /\ pc[c] = "body"
    /\ bodyReads' = [bodyReads EXCEPT ![c] = @ + 1]
    /\ pos' = [pos EXCEPT ![c] = Len(req[c].net.stream)]
    /\ IF AllOk(req[c].net.stream)
       THEN /\ body_vec' = [body_vec EXCEPT ![c] = Concat(req[c].net.stream)]
            /\ Goto(c, "classify")
       ELSE /\ Return(c, Err("Transport"))
            /\ UNCHANGED body_vec
    /\ UNCHANGED <<req, digest, status, total_size, downloaded, blob, requests, channel,
                   verified>>

get_blob_classified(s, body) ==
    IF is_success(s) THEN OkBytes(body)
    ELSE IF is_client_error(s) THEN ErrClient(s, Len(body), body)
    ELSE ErrStatus(s)

get_blob_classify(c) ==
    /\ c \in Calls /\ req[c].op = "get_blob" /\ pc[c] = "classify"
    /\ LET r == get_blob_classified(status[c], body_vec[c])
       IN  IF r.kind = "Ok"
           THEN /\ blob' = [blob EXCEPT ![c] = r.body]
                /\ Goto(c, "verify")
           ELSE /\ Return(c, r)
                /\ UNCHANGED blob
    /\ UNCHANGED <<req, digest, status, total_size, downloaded, body_vec, wire, channel,
                   verified>>

\* variant: the outcome of try_verify is ignored
get_blob_verified_ignored(d, b) == OkBytes(b)

\* digest.try_verify(&blob)?; Ok(blob.to_vec())
get_blob_verified(d, b) ==
    IF try_verify(d, b) THEN OkBytes(b) ELSE Err("Verification")

get_blob_verify(c) ==
    /\ c \in Calls /\ req[c].op = "get_blob" /\ pc[c] = "verify"
    /\ verified' = [verified EXCEPT ![c] =
            Append(@, [digest |-> Unwrap(digest[c]), bytes |-> blob[c],
                       ok |-> try_verify(Unwrap(digest[c]), blob[c])])]
    /\ Return(c, get_blob_verified(Unwrap(digest[c]), blob[c]))
    /\ UNCHANGED <<req, locals, wire, channel>>

get_blob(c) ==
    \/ get_blob_parse(c)
    \/ get_blob_url(c)
    \/ get_blob_send(c)
    \/ get_blob_gate(c)
    \/ get_blob_bytes(c)
    \/ get_blob_classify(c)
    \/ get_blob_verify(c)

\* -------------------------------------------------- get_blob_with_progress
min(a, b) == IF a <= b THEN a ELSE b

\* a panic unwinds the call: no value is returned, the locals and the
\* parameters (the Sender with them) are dropped
Panic(c) ==
    /\ result' = [result EXCEPT ![c] = Err("Panic")]
    /\ pc' = [pc EXCEPT ![c] = "panicked"]
    /\ txDropped' = [txDropped EXCEPT ![c] = @ + (IF req[c].sender THEN 1 ELSE 0)]

get_blob_with_progress_parse(c) ==
    /\ c \in Calls /\ req[c].op = "get_blob_with_progress" /\ pc[c] = "start"
    /\ digest' = [digest EXCEPT ![c] = try_new(req[c].digest)]
    /\ IF digest'[c] = None THEN Return(c, Err("DigestFormat")) ELSE Goto(c, "url")
    /\ UNCHANGED <<req, status, total_size, downloaded, body_vec, blob, wire, channel, verified>>

get_blob_with_progress_url(c) ==
    /\ c \in Calls /\ req[c].op = "get_blob_with_progress" /\ pc[c] = "url"
    /\ IF UrlParse(req[c].base_url) THEN Goto(c, "send") ELSE Return(c, Err("UrlParse"))
    /\ UNCHANGED <<req, locals, wire, channel, verified>>

get_blob_with_progress_send(c) ==
    /\ c \in Calls /\ req[c].op = "get_blob_with_progress" /\ pc[c] = "send"
    /\ requests' = [requests EXCEPT ![c] = Append(@, "GET")]
    /\ IF req[c].net.sendOk
       THEN /\ status' = [status EXCEPT ![c] = req[c].net.status]
            /\ Goto(c, "gate")
       ELSE /\ Return(c, Err("Transport"))
            /\ UNCHANGED status
    /\ UNCHANGED <<req, digest, total_size, downloaded, body_vec, blob, bodyReads, pos,
                   channel, verified>>

\* variant: no gate before the body
get_blob_with_progress_gate_absent(s) == FALSE

\* if !status.is_success() { return ... }
get_blob_with_progress_gate_closed(s) == ~is_success(s)

get_blob_with_progress_gate(c) ==
    /\ c \in Calls /\ req[c].op = "get_blob_with_progress" /\ pc[c] = "gate"
    /\ IF get_blob_with_progress_gate_closed(status[c])
       THEN Return(c, ErrStatus(status[c]))
       ELSE Goto(c, "length")
    /\ UNCHANGED <<req, locals, wire, channel, verified>>

\* variant: a missing content length counts as 0
get_blob_with_progress_length_or_zero(c) ==
    /\ c \in Calls /\ req[c].op = "get_blob_with_progress" /\ pc[c] = "length"
    /\ total_size' = [total_size EXCEPT ![c] =
            IF req[c].net.content_length = None THEN 0
            ELSE Unwrap(req[c].net.content_length)]
    /\ Goto(c, "stream")
    /\ UNCHANGED <<req, digest, status, downloaded, body_vec, blob, wire, channel, verified>>

\* let total_size = match res.content_length() { None => return Err(..), Some(l) => l }
get_blob_with_progress_length(c) ==
    /\ c \in Calls /\ req[c].op = "get_blob_with_progress" /\ pc[c] = "length"
    /\ IF req[c].net.content_length = None
       THEN /\ Return(c, Err("MissingHeader"))
            /\ UNCHANGED total_size
       ELSE /\ total_size' = [total_size EXCEPT ![c] = Unwrap(req[c].net.content_length)]
            /\ Goto(c, "stream")
    /\ UNCHANGED <<req, digest, status, downloaded, body_vec, blob, wire, channel, verified>>

\* send.send(downloaded).unwrap(): Sender::send fails only when the Receiver
\* is gone, and unwrap panics on the failure
send_unwrap_panics(alive) == ~alive

\* variant: a failed read is taken for an empty buffer
stream_item_never_failed(item) == FALSE

\* match item { Ok(b) => b, Err(e) => return Err(Error::DownloadFailed) }
stream_item_failed(item) == ~item.ok

\* variant: the running total is not capped by the declared length
progress_unclamped(d, n, total) == d + n

\* variant: the size of the chunk is reported, not the running total
progress_increment(d, n, total) == min(n, total)

\* let new = min(downloaded + (chunk.len() as u64), total_size)
progress_after(d, n, total) == min(d + n, total)

\* one turn of `while let Some(item) = stream.next().await`
get_blob_with_progress_next(c) ==
    /\ c \in Calls /\ req[c].op = "get_blob_with_progress" /\ pc[c] = "stream"
    /\ bodyReads' = [bodyReads EXCEPT ![c] = @ + 1]
    /\ IF pos[c] = Len(req[c].net.stream)
       THEN \* the stream has ended
            /\ Goto(c, "classify")
            /\ UNCHANGED <<pos, downloaded, body_vec, sent>>
       ELSE LET item == req[c].net.stream[pos[c] + 1]
                new == progress_after(downloaded[c], Len(item.bytes), total_size[c])
            IN  /\ pos' = [pos EXCEPT ![c] = @ + 1]
                /\ IF stream_item_failed(item)
                   THEN /\ Return(c, Err("DownloadFailed"))
                        /\ UNCHANGED <<downloaded, body_vec, sent>>
                   ELSE /\ downloaded' = [downloaded EXCEPT ![c] = new]
                        /\ IF req[c].sender /\ send_unwrap_panics(rxAlive[c])
                           THEN /\ Panic(c)
                                /\ UNCHANGED <<body_vec, sent>>
                           ELSE /\ sent' = [sent EXCEPT ![c] =
                                        IF req[c].sender THEN Append(@, new) ELSE @]
                                /\ body_vec' = [body_vec EXCEPT ![c] = @ \o item.bytes]
                                /\ Goto(c, "stream")
    /\ UNCHANGED <<req, digest, status, total_size, blob, requests, rxAlive, verified>>

get_blob_with_progress_classified(s, body) ==
    IF is_success(s) THEN OkBytes(body)
    ELSE IF is_client_error(s) THEN ErrClient(s, Len(body), body)
    ELSE ErrStatus(s)

\* variant: the Sender is dropped once the stream has ended
get_blob_with_progress_classify_closing(c) ==
    /\ c \in Calls /\ req[c].op = "get_blob_with_progress" /\ pc[c] = "classify"
    /\ LET r == get_blob_with_progress_classified(status[c], body_vec[c])
       IN  /\ blob' = [blob EXCEPT ![c] = r.body]
           /\ pc' = [pc EXCEPT ![c] = "verify"]
           /\ txDropped' = [txDropped EXCEPT ![c] = @ + (IF req[c].sender THEN 1 ELSE 0)]
           /\ UNCHANGED result
    /\ UNCHANGED <<req, digest, status, total_size, downloaded, body_vec, wire, channel,
                   verified>>

get_blob_with_progress_classify(c) ==
    /\ c \in Calls /\ req[c].op = "get_blob_with_progress" /\ pc[c] = "classify"
    /\ LET r == get_blob_with_progress_classified(status[c], body_vec[c])
       IN  IF r.kind = "Ok"
           THEN /\ blob' = [blob EXCEPT ![c] = r.body]
                /\ Goto(c, "verify")
           ELSE /\ Return(c, r)
                /\ UNCHANGED blob
    /\ UNCHANGED <<req, digest, status, total_size, downloaded, body_vec, wire, channel,
                   verified>>

\* variant: the outcome of try_verify is ignored
get_blob_with_progress_verified_ignored(d, b) == OkBytes(b)

\* digest.try_verify(&blob)?; Ok(blob.to_vec())
get_blob_with_progress_verified(d, b) ==
    IF try_verify(d, b) THEN OkBytes(b) ELSE Err("Verification")

get_blob_with_progress_verify(c) ==
    /\ c \in Calls /\ req[c].op = "get_blob_with_progress" /\ pc[c] = "verify"
    /\ verified' = [verified EXCEPT ![c] =
            Append(@, [digest |-> Unwrap(digest[c]), bytes |-> blob[c],
                       ok |-> try_verify(Unwrap(digest[c]), blob[c])])]
    /\ Return(c, get_blob_with_progress_verified(Unwrap(digest[c]), blob[c]))
    /\ UNCHANGED <<req, locals, wire, channel>>

get_blob_with_progress(c) ==
    \/ get_blob_with_progress_parse(c)
    \/ get_blob_with_progress_url(c)
    \/ get_blob_with_progress_send(c)
    \/ get_blob_with_progress_gate(c)
    \/ get_blob_with_progress_length(c)
    \/ get_blob_with_progress_next(c)
    \/ get_blob_with_progress_classify(c)
    \/ get_blob_with_progress_verify(c)

\* ------------------------------------------------------------- environment
\* the consumer abandons the channel: it drops the Receiver<u64>
ReceiverDrop(c) ==
    /\ c \in Calls /\ req[c].sender /\ rxAlive[c]
    /\ rxAlive' = [rxAlive EXCEPT ![c] = FALSE]
    /\ UNCHANGED <<req, pc, locals, result, wire, sent, txDropped, verified>>

Next ==
    \E c \in CallIds :
        \/ has_blob(c)
        \/ get_blob(c)
        \/ get_blob_with_progress(c)
        \/ ReceiverDrop(c)

Spec == Init /\ [][Next]_vars

\* ------------------------------------------------- the two fetches compared
\* get_blob (call 1) and get_blob_with_progress without a Sender (call 2),
\* given the same arguments and the same transport behaviour
PairInputs ==
    { [c \in {1, 2} |->
          [op |-> IF c = 1 THEN "get_blob" ELSE "get_blob_with_progress",
           digest |-> d, base_url |-> b, sender |-> FALSE, net |-> n]] :
      d \in DigestStrings, b \in BaseUrls, n \in GetScripts }

InitPair == InitFrom(PairInputs)

NextFetch ==
    \E c \in CallIds :
        \/ get_blob_parse(c)
        \/ get_blob_url(c)
        \/ get_blob_send(c)
        \/ get_blob_gate(c)
        \/ get_blob_bytes(c)
        \/ get_blob_classify(c)
        \/ get_blob_verify(c)
        \/ get_blob_with_progress_parse(c)
        \/ get_blob_with_progress_url(c)
        \/ get_blob_with_progress_send(c)
        \/ get_blob_with_progress_gate(c)
        \/ get_blob_with_progress_length(c)
        \/ get_blob_with_progress_next(c)
        \/ get_blob_with_progress_classify(c)
        \/ get_blob_with_progress_verify(c)

SpecPair == InitPair /\ [][NextFetch]_vars

\* ------------------------------------------------------- concurrent fetches
\* Two fetches on the same client, scheduled in any order: call 1 streams
\* with a Sender, call 2 is any fetch; each has its own response.
ConcStreams == SeqsUpTo({OkItem(b) : b \in ChunkBytes} \cup {ErrItem}, MaxConcChunks)

ConcInputs ==
    { [c \in {1, 2} |-> IF c = 1 THEN r1 ELSE r2] :
      r1 \in [op : {"get_blob_with_progress"},
              digest : {<<"s", ":", "0", "0">>, <<"s", ":", "0", "1">>},
              base_url : {"http://registry"}, sender : {TRUE},
              net : [sendOk : {TRUE}, status : {200},
                     content_length : {Some(MaxLength)}, stream : ConcStreams]],
      r2 \in [op : {"get_blob"}, digest : {<<"s", ":", "0", "0">>},
              base_url : {"http://registry"}, sender : {FALSE},
              net : [sendOk : {TRUE}, status : {200},
                     content_length : {None}, stream : ConcStreams]]
          \cup
            [op : {"get_blob_with_progress"}, digest : {<<"s", ":", "0", "0">>},
              base_url : {"http://registry"}, sender : BOOLEAN,
              net : [sendOk : {TRUE}, status : {200},
                     content_length : {Some(1)}, stream : ConcStreams]] }

InitConc == InitFrom(ConcInputs)

NextConc ==
    \/ NextFetch
    \/ \E c \in CallIds : ReceiverDrop(c)

SpecConc == InitConc /\ [][NextConc]_vars

\* --------------------------------------------------------- a fetch repeated
\* The same fetch made twice, the second time after the first has ended:
\* same arguments, same transport behaviour, and a consumer that either
\* keeps both Receivers or has abandoned both before the first call.
RepeatRequests ==
    [op : {"get_blob"},
     digest : {<<"s", ":", "0", "0">>, <<"s", ":", "0", "1">>, <<"s", ":", "0">>},
     base_url : BaseUrls, sender : {FALSE}, net : GetScripts]
    \cup
    [op : {"get_blob_with_progress"},
     digest : {<<"s", ":", "0", "0">>, <<"s", ":", "0", "1">>, <<"s", ":", "0">>},
     base_url : BaseUrls, sender : BOOLEAN, net : GetScripts]

RepeatInputs == { [c \in {1, 2} |-> r] : r \in RepeatRequests }

InitRepeat == InitFrom(RepeatInputs)

\* call 1 goes first, call 2 once call 1 has ended
Turn(c) == c \in Calls /\ (c = 1 \/ pc[1] \in {"done", "panicked"})

ReceiverDropAll ==
    /\ \A c \in Calls : pc[c] = "start"
    /\ \E c \in Calls : req[c].sender /\ rxAlive[c]
    /\ rxAlive' = [c \in DOMAIN rxAlive |-> FALSE]
    /\ UNCHANGED <<req, pc, locals, result, wire, sent, txDropped, verified>>

NextRepeat ==
    \/ ReceiverDropAll
    \/ \E c \in CallIds :
        \/ Turn(c) /\ get_blob_parse(c)
        \/ Turn(c) /\ get_blob_url(c)
        \/ Turn(c) /\ get_blob_send(c)
        \/ Turn(c) /\ get_blob_gate(c)
        \/ Turn(c) /\ get_blob_bytes(c)
        \/ Turn(c) /\ get_blob_classify(c)
        \/ Turn(c) /\ get_blob_verify(c)
        \/ Turn(c) /\ get_blob_with_progress_parse(c)
        \/ Turn(c) /\ get_blob_with_progress_url(c)
        \/ Turn(c) /\ get_blob_with_progress_send(c)
        \/ Turn(c) /\ get_blob_with_progress_gate(c)
        \/ Turn(c) /\ get_blob_with_progress_length(c)
        \/ Turn(c) /\ get_blob_with_progress_next(c)
        \/ Turn(c) /\ get_blob_with_progress_classify(c)
        \/ Turn(c) /\ get_blob_with_progress_verify(c)

SpecRepeat == InitRepeat /\ [][NextRepeat]_vars

\* ================================================================== claims
Fetch(c) == req[c].op \in {"get_blob", "get_blob_with_progress"}
Progress(c) == req[c].op = "get_blob_with_progress"
Terminated(c) == pc[c] \in {"done", "panicked"}

\* the request was sent and the response head (status, headers) came back
Responded(c) == requests[c] # <<>> /\ req[c].net.sendOk

\* the Ok items among the first n items of the call's stream
Delivered(c, n) == {i \in 1..n : req[c].net.stream[i].ok}

\* C1: a fetch returns Ok(bytes) only after one try_verify call, of exactly
\* the assembled bytes against the digest parsed from the caller's string,
\* succeeded; a failed try_verify ends the call with the verification error.
C1_OkIsVerified ==
    \A c \in Calls : Fetch(c) =>
        /\ result[c].kind = "Ok" =>
              /\ try_new(req[c].digest) # None
              /\ verified[c] = << [digest |-> Unwrap(try_new(req[c].digest)),
                                   bytes |-> result[c].body, ok |-> TRUE] >>
              /\ result[c].body = body_vec[c]
              /\ result[c].body = Concat(req[c].net.stream)
              /\ Hash(result[c].body) = Unwrap(try_new(req[c].digest)).hex
        /\ \A i \in 1..Len(verified[c]) :
              ~verified[c][i].ok => pc[c] = "done" /\ result[c] = Err("Verification")

C1_Witness ==
    \E c \in Calls :
        /\ req[c].op = "get_blob" /\ result[c].kind = "Ok" /\ Len(result[c].body) >= 2
        /\ Len(verified[c]) = 1

\* C2: a response with a client-error status ends a fetch with the Client
\* error carrying the status, the body length and the body.
C2_ClientErrorCarriesBody ==
    \A c \in Calls :
        (Fetch(c) /\ pc[c] = "done" /\ Responded(c) /\ is_client_error(req[c].net.status)
            /\ AllOk(req[c].net.stream) /\ req[c].net.stream # <<>>)
        => result[c] = ErrClient(req[c].net.status, Len(Concat(req[c].net.stream)),
                                 Concat(req[c].net.stream))

\* C3: a response whose status is neither success nor client error ends a
\* fetch with UnexpectedHttpStatus of that status, and the body is never read.
C3_GateBeforeBody ==
    \A c \in Calls :
        (Fetch(c) /\ Responded(c)
            /\ ~is_success(req[c].net.status) /\ ~is_client_error(req[c].net.status))
        => /\ bodyReads[c] = 0 /\ pos[c] = 0
           /\ pc[c] \in {"gate", "done"}
           /\ pc[c] = "done" => result[c] = ErrStatus(req[c].net.status)

C3_Witness ==
    \E c \in Calls :
        /\ Progress(c) /\ pc[c] = "done" /\ result[c] = ErrStatus(500)
        /\ req[c].net.stream # <<>>

\* C4: has_blob returns Ok(true) exactly for status 200, Ok(false) for every
\* other status received, and an error when the request could not be sent.
C4_HasBlob ==
    \A c \in Calls : (req[c].op = "has_blob" /\ pc[c] = "done") =>
        /\ result[c] = OkBool(TRUE) <=> (Responded(c) /\ req[c].net.status = 200)
        /\ (Responded(c) /\ req[c].net.status # 200) => result[c] = OkBool(FALSE)
        /\ (requests[c] # <<>> /\ ~req[c].net.sendOk) => result[c] = Err("Transport")
        /\ result[c] = OkBool(FALSE) => Responded(c)

C4_Witness ==
    \E c \in Calls :
        /\ req[c].op = "has_blob" /\ pc[c] = "done"
        /\ req[c].net.status = 204 /\ result[c] = OkBool(FALSE)

\* C5: a digest string that does not parse ends a fetch with the digest-format
\* error before any request is issued and before any progress value is sent.
C5_ParseFirst ==
    \A c \in Calls : (Fetch(c) /\ try_new(req[c].digest) = None) =>
        /\ requests[c] = <<>> /\ sent[c] = <<>> /\ bodyReads[c] = 0
        /\ pc[c] \in {"start", "done"}
        /\ pc[c] = "done" => result[c] = Err("DigestFormat")

C5_Witness ==
    \E c \in Calls :
        /\ Progress(c) /\ req[c].sender /\ pc[c] = "done"
        /\ result[c] = Err("DigestFormat") /\ req[c].net.sendOk

\* the request gets a success response whose body arrives whole and hashes
\* to the digest asked for
GoodResponse(c) ==
    /\ try_new(req[c].digest) # None /\ UrlParse(req[c].base_url)
    /\ req[c].net.sendOk /\ is_success(req[c].net.status)
    /\ AllOk(req[c].net.stream)
    /\ try_verify(Unwrap(try_new(req[c].digest)), Concat(req[c].net.stream))

\* C6: with a Sender, the channel has accepted exactly one value per buffer
\* the stream has delivered.
C6_OneNotificationPerChunk ==
    \A c \in Calls : (Progress(c) /\ req[c].sender) =>
        Len(sent[c]) = Cardinality(Delivered(c, pos[c]))

\* C7: the Sender passed to get_blob_with_progress is dropped exactly once,
\* when the call ends and on whichever path it ends, so that a call that has
\* terminated has closed the channel; nothing is sent after the drop.
C7_SenderReleasedOnce ==
    /\ [](\A c \in Calls : (Progress(c) /\ req[c].sender) =>
            txDropped[c] = IF Terminated(c) THEN 1 ELSE 0)
    /\ [][\A c \in Calls : txDropped[c] >= 1 =>
            sent'[c] = sent[c] /\ txDropped'[c] = txDropped[c]]_vars

C7_Witness ==
    \E c \in Calls :
        /\ Progress(c) /\ req[c].sender /\ pc[c] = "done"
        /\ result[c] = Err("DownloadFailed") /\ Len(sent[c]) >= 1
        /\ txDropped[c] = 1 /\ rxAlive[c]

\* C8: with the Receiver dropped, a good response with a declared length
\* still ends get_blob_with_progress with Ok of the whole verified body.
C8_AbandonedReceiverHarmless ==
    \A c \in Calls :
        (Progress(c) /\ req[c].sender /\ ~rxAlive[c] /\ Terminated(c)
            /\ GoodResponse(c) /\ req[c].net.content_length # None)
        => /\ result[c] = OkBytes(Concat(req[c].net.stream))
           /\ pos[c] = Len(req[c].net.stream)

\* C9: once a read of the stream has failed, get_blob_with_progress has
\* returned DownloadFailed: that read is the last one, the values sent are
\* those of the buffers before it, try_verify was not called and the Sender
\* is dropped.
C9_DownloadFailed ==
    \A c \in Calls :
        (Progress(c) /\ \E i \in 1..pos[c] : ~req[c].net.stream[i].ok) =>
            /\ AllOk(SubSeq(req[c].net.stream, 1, pos[c] - 1))
            /\ pc[c] = "done" /\ result[c] = Err("DownloadFailed")
            /\ bodyReads[c] = pos[c]
            /\ Len(sent[c]) = (IF req[c].sender THEN pos[c] - 1 ELSE 0)
            /\ verified[c] = <<>>
            /\ txDropped[c] = IF req[c].sender THEN 1 ELSE 0

C9_Witness ==
    \E c \in Calls :
        /\ Progress(c) /\ req[c].sender /\ result[c] = Err("DownloadFailed")
        /\ pos[c] = 2 /\ Len(req[c].net.stream) = 3 /\ Len(sent[c]) = 1

\* C10 as claimed: a good response without a declared content length ends
\* get_blob_with_progress with Ok of the whole body.
C10_LengthNotRequired ==
    \A c \in Calls :
        (Progress(c) /\ Terminated(c) /\ GoodResponse(c)
            /\ req[c].net.content_length = None /\ req[c].net.stream # <<>>)
        => result[c] = OkBytes(Concat(req[c].net.stream))

\* C10 as amended: get_blob_with_progress requires a declared content
\* length: a success response without one ends the call with MissingHeader,
\* whatever the body, and an Ok result comes only from a response that
\* declares its length.
C10_LengthRequired ==
    \A c \in Calls : Progress(c) =>
        /\ (Terminated(c) /\ Responded(c) /\ is_success(req[c].net.status)
                /\ req[c].net.content_length = None)
           => result[c] = Err("MissingHeader")
        /\ result[c].kind = "Ok" => req[c].net.content_length # None

C10_Witness ==
    \E c \in Calls :
        /\ Progress(c) /\ pc[c] = "done" /\ GoodResponse(c)
        /\ req[c].net.content_length = None /\ req[c].net.stream # <<>>
        /\ result[c] = Err("MissingHeader")

\* same Ok bytes, or the same kind of error
SameOutcome(r1, r2) ==
    /\ r1.kind = r2.kind
    /\ r1.kind = "Ok" => r1.body = r2.body

\* C11 as claimed: given the same arguments and the same transport
\* behaviour, get_blob and get_blob_with_progress without a Sender end with
\* the same outcome.
C11_SameOutcome ==
    (Calls = {1, 2} /\ Terminated(1) /\ Terminated(2)) => SameOutcome(result[1], result[2])

\* the request reaches a success response
ReachesBody(r) ==
    /\ try_new(r.digest) # None /\ UrlParse(r.base_url)
    /\ r.net.sendOk /\ is_success(r.net.status)

\* C11 as amended: the two fetches end with the same outcome except for a
\* success response that declares no content length (get_blob_with_progress
\* returns MissingHeader, get_blob reads and verifies the body) and for a
\* body whose read fails (get_blob_with_progress returns DownloadFailed,
\* get_blob the transport's error).
C11_SameOutcomeButLengthAndBodyFailure ==
    (Calls = {1, 2} /\ Terminated(1) /\ Terminated(2)) =>
        LET r == req[1]
        IN  IF ReachesBody(r) /\ r.net.content_length = None
            THEN /\ result[2] = Err("MissingHeader")
                 /\ result[1].kind \in {"Ok", "Verification", "Transport"}
            ELSE IF ReachesBody(r) /\ ~AllOk(r.net.stream)
            THEN /\ result[2] = Err("DownloadFailed")
                 /\ result[1] = Err("Transport")
            ELSE result[1] = result[2]

C11_Witness ==
    /\ Calls = {1, 2} /\ pc[1] = "done" /\ pc[2] = "done"
    /\ result[1] = result[2] /\ result[2].kind = "Ok"
    /\ Len(req[2].net.stream) >= 2 /\ pos[2] = Len(req[2].net.stream)

\* C12: a call issues at most one request, a HEAD in has_blob and a GET in
\* the fetches, whatever its outcome; a call that has ended issues none.
C12_AtMostOneRequest ==
    /\ [](\A c \in Calls :
            /\ Len(requests[c]) <= 1
            /\ requests[c] # <<>> =>
                  requests[c][1] = IF req[c].op = "has_blob" THEN "HEAD" ELSE "GET")
    /\ [][\A c \in Calls : Terminated(c) => requests'[c] = requests[c]]_vars

C12_Witness ==
    \E c \in Calls :
        /\ req[c].op = "get_blob" /\ pc[c] = "done"
        /\ result[c] = Err("Transport") /\ requests[c] = <<"GET">> /\ bodyReads[c] = 0

\* what a fetch returns for request r when nothing aborts it
AloneResult(r) ==
    IF try_new(r.digest) = None THEN Err("DigestFormat")
    ELSE IF ~UrlParse(r.base_url) THEN Err("UrlParse")
    ELSE IF ~r.net.sendOk THEN Err("Transport")
    ELSE IF ~is_success(r.net.status) THEN ErrStatus(r.net.status)
    ELSE IF r.op = "get_blob_with_progress" /\ r.net.content_length = None
         THEN Err("MissingHeader")
    ELSE IF ~AllOk(r.net.stream)
         THEN (IF r.op = "get_blob" THEN Err("Transport") ELSE Err("DownloadFailed"))
    ELSE IF try_verify(Unwrap(try_new(r.digest)), Concat(r.net.stream))
         THEN OkBytes(Concat(r.net.stream))
    ELSE Err("Verification")

\* everything call c owns
CallState(c) ==
    <<pc[c], digest[c], status[c], total_size[c], downloaded[c], body_vec[c], blob[c],
      result[c], requests[c], bodyReads[c], pos[c], sent[c], txDropped[c], verified[c]>>

\* C13: however the steps of two fetches interleave, a step of one call
\* changes nothing the other call owns, each call accumulates a prefix of its
\* own stream and sends the running totals of its own stream, and a call that
\* returns returns what it returns alone.
C13_NoInterference ==
    /\ [](\A c \in Calls :
            /\ \E n \in 0..Len(req[c].net.stream) :
                  /\ AllOk(SubSeq(req[c].net.stream, 1, n))
                  /\ body_vec[c] = Concat(SubSeq(req[c].net.stream, 1, n))
            /\ Len(sent[c]) <= Len(req[c].net.stream)
            /\ ~req[c].sender => sent[c] = <<>>
            /\ \A i \in 1..Len(sent[c]) :
                  sent[c][i] = min(Len(Concat(SubSeq(req[c].net.stream, 1, i))),
                                   total_size[c])
            /\ pc[c] = "done" => result[c] = AloneResult(req[c])
            /\ pc[c] = "panicked" => req[c].sender /\ ~rxAlive[c])
    /\ [][\A c \in Calls, d \in Calls :
            (c # d /\ CallState(c)' # CallState(c)) => CallState(d)' = CallState(d)]_vars

C13_Witness ==
    /\ Calls = {1, 2}
    /\ pc[1] = "stream" /\ pc[2] = "stream" /\ pos[1] = 1 /\ pos[2] = 1
    /\ body_vec[1] # <<>> /\ body_vec[2] # <<>> /\ body_vec[1] # body_vec[2]
    /\ sent[1] # <<>> /\ sent[2] # <<>> /\ sent[1] # sent[2]

\* C14: a fetch repeated with the same arguments against the same transport
\* behaviour ends the second time as it ended the first time, and the second
\* call starts from nothing the first call left.
C14_Idempotent ==
    Calls = {1, 2} =>
        /\ (pc[1] \in {"done", "panicked"} /\ pc[2] \in {"done", "panicked"}) =>
              /\ result[2] = result[1]
              /\ sent[2] = sent[1]
              /\ verified[2] = verified[1]
        /\ pc[2] = "start" => CallState(2) = <<"start", None, 0, 0, 0, <<>>, <<>>,
                                                NoResult, <<>>, 0, 0, <<>>, 0, <<>>>>

C14_Witness ==
    /\ Calls = {1, 2} /\ pc[1] = "done" /\ pc[2] = "done"
    /\ req[2].op = "get_blob_with_progress" /\ req[2].sender
    /\ result[2] = result[1] /\ result[2].kind = "Ok" /\ Len(result[2].body) >= 2
    /\ Len(sent[2]) >= 2

\* C15 as claimed: once the stream has ended and the response is
\* classified, the Sender has been dropped: the channel is closed before
\* try_verify runs.
C15_ClosedBeforeVerify ==
    \A c \in Calls :
        (Progress(c) /\ req[c].sender /\ pc[c] = "verify") => txDropped[c] = 1

\* C15 as amended: when the stream ends without a transport error the
\* response is classified, then the digest is verified, and the Sender is
\* dropped only as the call returns, after try_verify has run: the consumer
\* cannot see the channel closed before the verification.
C15_ClosedAfterVerify ==
    \A c \in Calls : (Progress(c) /\ req[c].sender) =>
        /\ pc[c] \in {"classify", "verify"} => txDropped[c] = 0 /\ verified[c] = <<>>
        /\ pc[c] = "verify" =>
              /\ is_success(status[c])
              /\ blob[c] = body_vec[c] /\ blob[c] = Concat(req[c].net.stream)
        /\ (txDropped[c] >= 1 /\ result[c].kind \in {"Ok", "Verification"}) =>
              /\ Len(verified[c]) = 1
              /\ verified[c][1].bytes = blob[c]

C15_Witness ==
    \E c \in Calls :
        /\ Progress(c) /\ req[c].sender /\ rxAlive[c]
        /\ pc[c] = "verify" /\ txDropped[c] = 0 /\ Len(sent[c]) >= 2

\* C16: try_verify is called only once the response is classified Ok: a
\* fetch that ends with any other error has never called it, and a call of
\* it follows a success status and a body read to its end.
C16_VerifyOnlyAfterOk ==
    \A c \in Calls : Fetch(c) =>
        /\ result[c].kind \in {"Client", "UnexpectedHttpStatus", "Transport",
                               "MissingHeader", "DownloadFailed", "DigestFormat",
                               "UrlParse"}
              => verified[c] = <<>>
        /\ verified[c] # <<>> =>
              /\ Len(verified[c]) = 1
              /\ Responded(c) /\ is_success(status[c])
              /\ AllOk(req[c].net.stream) /\ pos[c] = Len(req[c].net.stream)
              /\ verified[c][1].bytes = Concat(req[c].net.stream)

C16_Witness ==
    \E c \in Calls :
        /\ req[c].op = "get_blob" /\ pc[c] = "done" /\ bodyReads[c] = 1
        /\ result[c] = Err("Transport") /\ verified[c] = <<>>
        /\ \E i \in 1..Len(req[c].net.stream) : req[c].net.stream[i].ok

\* the bytes the first i items of the call's stream carry
BytesUpTo(c, i) == Len(Concat(SubSeq(req[c].net.stream, 1, i)))

\* the content length the response declares
Declared(c) == Unwrap(req[c].net.content_length)

\* C17: a success response without a declared content length ends
\* get_blob_with_progress with MissingHeader before the stream is polled and
\* before anything is sent to the observer.
C17_MissingHeaderBeforeBody ==
    \A c \in Calls :
        (Progress(c) /\ Responded(c) /\ is_success(req[c].net.status)
            /\ req[c].net.content_length = None)
        => /\ bodyReads[c] = 0 /\ pos[c] = 0 /\ body_vec[c] = <<>> /\ sent[c] = <<>>
           /\ pc[c] \in {"gate", "length", "done"}
           /\ pc[c] = "done" => result[c] = Err("MissingHeader")

C17_Witness ==
    \E c \in Calls :
        /\ Progress(c) /\ req[c].sender /\ rxAlive[c] /\ pc[c] = "done"
        /\ req[c].net.status = 204 /\ Len(req[c].net.stream) >= 2
        /\ result[c] = Err("MissingHeader") /\ bodyReads[c] = 0

\* C18: the values sent are a running total capped by the declared length:
\* the i-th is min(bytes of the first i chunks, declared length), so they
\* never decrease and never exceed the declared length.
C18_RunningTotal ==
    \A c \in Calls : (Progress(c) /\ req[c].sender) =>
        \A i \in 1..Len(sent[c]) :
            /\ sent[c][i] = min(BytesUpTo(c, i), Declared(c))
            /\ sent[c][i] <= Declared(c)
            /\ i > 1 => sent[c][i - 1] <= sent[c][i]

C18_Witness ==
    \E c \in Calls :
        /\ Progress(c) /\ req[c].sender /\ Len(sent[c]) >= 2
        /\ BytesUpTo(c, Len(sent[c])) > Declared(c)
        /\ sent[c][Len(sent[c])] = Declared(c) /\ Declared(c) > 0

\* C19 as claimed: after an Ok return with at least one chunk, the last
\* value sent is the length of the returned blob.
C19_LastIsBlobLength ==
    \A c \in Calls :
        (Progress(c) /\ req[c].sender /\ result[c].kind = "Ok" /\ sent[c] # <<>>)
        => sent[c][Len(sent[c])] = Len(result[c].body)

\* C19 as amended: after an Ok return with at least one chunk, the last
\* value sent is min(length of the returned blob, declared content length);
\* it is the length of the blob when the declared length is not smaller.
C19_LastIsCappedBlobLength ==
    \A c \in Calls :
        (Progress(c) /\ req[c].sender /\ result[c].kind = "Ok" /\ sent[c] # <<>>)
        => /\ sent[c][Len(sent[c])] = min(Len(result[c].body), Declared(c))
           /\ Declared(c) >= Len(result[c].body)
                 => sent[c][Len(sent[c])] = Len(result[c].body)
           /\ Len(sent[c]) = Len(req[c].net.stream)

C19_Witness ==
    \E c \in Calls :
        /\ Progress(c) /\ req[c].sender /\ result[c].kind = "Ok" /\ Len(sent[c]) >= 2
        /\ sent[c][Len(sent[c])] < Len(result[c].body)

====
